---- MODULE Spec2Model ----
(***************************************************************************)
(* Model of the adaptive learning session engine of the kids e-learning    *)
(* app: the quiz session handlers of App.tsx with the useAI hooks, the     *)
(* question generation and fallback bank of aiService.ts, and the stored   *)
(* progress record updated by DatabaseService.addPoints.                   *)
(*                                                                         *)
(* Six specifications share the variables below:                           *)
(*   Spec        the quiz session (App.tsx handlers, useAI hooks)          *)
(*   SpecGen     aiService.generateQuestions and its reply validation      *)
(*   SpecBank    repeated calls of aiService.getFallbackQuestions          *)
(*   SpecLedger  overlapping DatabaseService.addPoints calls               *)
(*   SpecScenario   two quizzes of an older child without a credential     *)
(*   SpecAnalytics  aiService.analyzeLearningProgress and its fallback     *)
(*   SpecLater      the session after earlier answers in the same login     *)
(*   SpecChildren   choosing, switching and creating the child              *)
(* Each specification leaves the variables of the others at their initial  *)
(* values.                                                                 *)
(***************************************************************************)
EXTENDS Integers, Sequences, FiniteSets, Bags, TLC

VARIABLES
  \* ---- aiService singleton ----
  isConfigured,      \* AIService.isConfigured (also isAIEnabled of the hooks)
  now,               \* Date.now(), in abstract ticks
  \* ---- aiService.generateQuestions (SpecGen) ----
  genCall,           \* the last generateQuestions call: config, outcome, result
  \* ---- aiService.analyzeLearningProgress (SpecAnalytics) ----
  analysisCall,      \* the last analyzeLearningProgress call: arguments, outcome, report
  \* ---- aiService.getFallbackQuestions (SpecBank) ----
  bankCalls,         \* results of successive getFallbackQuestions(module) calls
  \* ---- DatabaseService.addPoints (SpecLedger) ----
  childProgress,     \* the stored child_progress row of one child
  addCalls,          \* the addPoints calls made so far: pc, arguments, row read
  \* ---- child selection of MainApp (SpecChildren) ----
  children,          \* the children listed on the selection view
  showChildSelection,\* the selection view is asked for
  childTasks,        \* bag of the selectChild and createNewChild calls awaiting the store
  \* ---- MainApp of App.tsx and the useAI hooks (Spec) ----
  currentChild,      \* the selected child: its age
  currentView,       \* "home", "module", "quiz" or "analytics"
  selectedModule,    \* a LearningModule, or "null"
  currentQuestions,  \* the question set of the quiz
  currentQuestion,   \* index of the question shown, from 0
  showAnswer,        \* the reveal flag
  selectedAnswer,    \* the option chosen, or NullAnswer
  progress,          \* the in-memory ledger (UserProgress)
  currentSession,    \* id of the learning session record, or NullSession
  sessionStartTime,  \* "null" or "set"
  questions,         \* useAIQuestions state: questions, loading
  encouragement,     \* useAIEncouragement state: encouragement, loading
  analytics,         \* useAIAnalytics state: analytics, loading
  tasks,             \* bag of the handler continuations awaiting an external call
  sessionsCreated,   \* number of learning session records asked of the store
  applied,           \* history: the outcomes applied to the ledger, in order
  ignored,           \* history: an answer selection has returned at line 259
  served,            \* history: the modules whose generation request has settled
  budget             \* the answers, quiz starts and pending calls one behaviour explores

genVars    == <<genCall, analysisCall>>
bankVars   == <<bankCalls>>
childVars  == <<children, showChildSelection, childTasks>>
ledgerVars == <<childProgress, addCalls, childVars>>
quizVars   == <<currentQuestions, currentQuestion, showAnswer, selectedAnswer>>
hookVars   == <<questions, encouragement, analytics>>
appVars    == <<currentChild, currentView, selectedModule, quizVars, progress, currentSession,
                sessionStartTime, hookVars, tasks, sessionsCreated, applied, ignored, served, budget>>
vars == <<isConfigured, now, genCall, analysisCall, bankCalls, childProgress, addCalls, childVars,
          appVars>>

(***************************************************************************)
(* Bounds of the model                                                     *)
(***************************************************************************)
MaxClock == 1        \* Date.now() takes the values 0..MaxClock
MaxReply == 2        \* longest provider reply array
MaxFenced == 1       \* longest provider reply array wrapped in code fences
MaxBankCalls == 2    \* getFallbackQuestions calls recorded
MaxBatch == 1        \* most questions in a provider reply to the session
MaxAnswers == 3      \* answers given in one behaviour
MaxQuizStarts == 1   \* startQuiz calls in one behaviour
MaxPending == 2      \* handler continuations pending at once
ScenarioAnswers == 6 \* answers of the two-quiz scenario
ScenarioStarts == 2  \* quizzes of the two-quiz scenario
ScenarioPending == 1 \* handler continuations pending at once in the scenario
MaxAddCalls == 3     \* addPoints calls started in one behaviour
MaxChildTasks == 2   \* selectChild and createNewChild calls pending at once

(***************************************************************************)
(* Generic helpers                                                         *)
(***************************************************************************)
Range(s) == {s[i] : i \in DOMAIN s}

RECURSIVE SelectSeqRec(_, _)
\* Array.prototype.filter with the predicate given as the set of kept values
SelectSeqRec(s, keep) ==
  IF s = <<>> THEN <<>>
  ELSE IF Head(s) \in keep
       THEN <<Head(s)>> \o SelectSeqRec(Tail(s), keep)
       ELSE SelectSeqRec(Tail(s), keep)

\* Array.prototype.slice(0, n)
SliceTo(s, n) == IF Len(s) <= n THEN s ELSE SubSeq(s, 1, n)

\* all orderings of a sequence (the outcomes of sort with a random comparator)
Permutations3(s) ==
  {[i \in DOMAIN s |-> s[p[i]]] :
     p \in {f \in [DOMAIN s -> DOMAIN s] : \A i, j \in DOMAIN s : i # j => f[i] # f[j]}}

(***************************************************************************)
(* JavaScript values as they appear in a parsed provider reply.            *)
(* A number n or n + 0.5 is [int |-> n, half |-> FALSE / TRUE].            *)
(***************************************************************************)
JAbsent     == [kind |-> "absent", s |-> "",  int |-> 0, half |-> FALSE, len |-> 0]
JStr(x)     == [kind |-> "string", s |-> x,   int |-> 0, half |-> FALSE, len |-> 0]
JNum(n)     == [kind |-> "number", s |-> "",  int |-> n, half |-> FALSE, len |-> 0]
JNumHalf(n) == [kind |-> "number", s |-> "",  int |-> n, half |-> TRUE,  len |-> 0]
JArr(n)     == [kind |-> "array",  s |-> "",  int |-> 0, half |-> FALSE, len |-> n]

\* JavaScript truthiness of a value (undefined, "" and 0 are falsy)
Truthy(j) ==
  CASE j.kind = "absent" -> FALSE
    [] j.kind = "string" -> j.s # ""
    [] j.kind = "number" -> ~(j.int = 0 /\ ~j.half)
    [] OTHER -> TRUE

IsInteger(j) == j.kind = "number" /\ ~j.half

\* option lists are kept by their length only: the texts play no role
Options(n) == [i \in 1..n |-> "option"]

(***************************************************************************)
(* Questions.  A question record keeps the fields of AIQuestion; the       *)
(* question text of a bank question is abstracted to its id tag.           *)
(***************************************************************************)
Question(tag, stamp, index, text, nOptions, correct, explanation, difficulty, topic) ==
  [id |-> <<tag, stamp, index>>, question |-> text, options |-> Options(nOptions),
   correct |-> correct, explanation |-> explanation, difficulty |-> difficulty,
   topic |-> topic]

\* one curated question of the service's bank: id `fallback-<tag>-${timestamp}`
BankQuestion(tag, correct, topic, stamp) ==
  Question(tag, stamp, 0, tag, 4, JNum(correct), "explanation", "easy", topic)

\* allFallbackQuestions of aiService.getFallbackQuestions: three sets per module
AllFallbackQuestions(stamp) ==
  [letters |->
     << << BankQuestion("fallback-l1", 1, "alphabet sequence", stamp),
           BankQuestion("fallback-l2", 1, "alphabet sequence", stamp),
           BankQuestion("fallback-l3", 1, "alphabet sequence", stamp) >>,
        << BankQuestion("fallback-l4", 1, "phonics", stamp),
           BankQuestion("fallback-l5", 0, "phonics", stamp),
           BankQuestion("fallback-l6", 2, "phonics", stamp) >>,
        << BankQuestion("fallback-l7", 0, "beginning sounds", stamp),
           BankQuestion("fallback-l8", 1, "beginning sounds", stamp),
           BankQuestion("fallback-l9", 0, "beginning sounds", stamp) >> >>,
   numbers |->
     << << BankQuestion("fallback-n1", 1, "counting", stamp),
           BankQuestion("fallback-n2", 1, "counting", stamp),
           BankQuestion("fallback-n3", 1, "counting", stamp) >>,
        << BankQuestion("fallback-n4", 1, "number sequence", stamp),
           BankQuestion("fallback-n5", 1, "number sequence", stamp),
           BankQuestion("fallback-n6", 1, "number sequence", stamp) >>,
        << BankQuestion("fallback-n7", 1, "addition", stamp),
           BankQuestion("fallback-n8", 1, "subtraction", stamp),
           BankQuestion("fallback-n9", 1, "addition", stamp) >> >>,
   colors |->
     << << BankQuestion("fallback-c1", 1, "color mixing", stamp),
           BankQuestion("fallback-c2", 2, "color mixing", stamp),
           BankQuestion("fallback-c3", 1, "color mixing", stamp) >>,
        << BankQuestion("fallback-c4", 1, "colors in nature", stamp),
           BankQuestion("fallback-c5", 0, "colors in nature", stamp),
           BankQuestion("fallback-c6", 2, "colors in nature", stamp) >>,
        << BankQuestion("fallback-c7", 2, "rainbow colors", stamp),
           BankQuestion("fallback-c8", 1, "color theory", stamp),
           BankQuestion("fallback-c9", 1, "color temperature", stamp) >> >>]

\* the LearningModule keys of App.tsx
LearningModules == {"letters", "numbers", "colors", "shapes", "animals", "math"}

\* moduleData[module].title of App.tsx
ModuleTitle(module) ==
  CASE module = "letters" -> "Letters & Phonics"
    [] module = "numbers" -> "Numbers & Counting"
    [] module = "colors"  -> "Colors & Shapes"
    [] module = "shapes"  -> "Shapes"
    [] module = "animals" -> "Animals & Nature"
    [] module = "math"    -> "Simple Math"

\* the seeds Math.floor(Math.random() * 1000) can give
Seeds == 0..999

\* the number of shuffled questions returned: shuffled.slice(0, 5)
FallbackSliceLen == 5

\* allFallbackQuestions[module] || []
QuestionSets(module, stamp) ==
  IF module \in DOMAIN AllFallbackQuestions(stamp)
  THEN AllFallbackQuestions(stamp)[module]
  ELSE <<>>

\* the set index chosen for a seed: seed % questionSets.length
SetIndex(seed, nSets) == seed % nSets

\* Every result one call getFallbackQuestions(module) at time stamp can return:
\* the seed and the comparator of the shuffle are drawn from Math.random().
GetFallbackQuestions(module, stamp) ==
  LET questionSets == QuestionSets(module, stamp) IN
  IF Len(questionSets) = 0 THEN {<<>>}
  ELSE UNION {
         {SliceTo(shuffled, FallbackSliceLen) :
            shuffled \in Permutations3(questionSets[setIndex + 1])} :
         setIndex \in {SetIndex(seed, Len(questionSets)) : seed \in Seeds}}

(***************************************************************************)
(* Provider replies.  An element of a reply array is an object with the    *)
(* fields the validation reads, null, or a scalar.  The reply text is a    *)
(* JSON body with or without code-fence markers around it.                 *)
(***************************************************************************)
Element(kind, question, options, correct, explanation, difficulty, topic) ==
  [kind |-> kind, question |-> question, options |-> options, correct |-> correct,
   explanation |-> explanation, difficulty |-> difficulty, topic |-> topic]

\* a well-formed question object, as the prompt asks for
GoodElement(text, correct, difficulty, topic) ==
  Element("object", JStr(text), JArr(4), correct, JStr("because"), difficulty, topic)

NullElement   == Element("null", JAbsent, JAbsent, JAbsent, JAbsent, JAbsent, JAbsent)
ScalarElement == Element("scalar", JAbsent, JAbsent, JAbsent, JAbsent, JAbsent, JAbsent)

\* the elements replies are built from: well-formed ones, and ones with a
\* single field missing, empty, of the wrong type or out of range
ReplyElements ==
  { GoodElement("Q1", JNum(0), JAbsent, JStr("T1")),
    GoodElement("Q2", JNum(3), JStr("hard"), JAbsent),
    GoodElement("Q3", JNumHalf(1), JAbsent, JStr("T3")),
    NullElement, ScalarElement }
  \cup { Element("object", q, JArr(4), JNum(1), JStr("because"), JAbsent, JStr("T"))
           : q \in {JAbsent, JStr("")} }
  \cup { Element("object", JStr("Q4"), o, JNum(1), JStr("because"), JAbsent, JStr("T"))
           : o \in {JAbsent, JStr("abcd"), JArr(3), JArr(5)} }
  \cup { Element("object", JStr("Q5"), JArr(4), c, JStr("because"), JAbsent, JStr("T"))
           : c \in {JAbsent, JStr("1"), JNum(-1), JNum(4)} }
  \cup { Element("object", JStr("Q6"), JArr(4), JNum(1), e, JAbsent, JStr("T"))
           : e \in {JAbsent, JStr("")} }

\* all sequences over S of length 0..n
SeqsUpTo(S, n) == UNION {[1..k -> S] : k \in 0..n}

\* The reply texts: fence is how the text is wrapped, body what it holds.
\*   fence "none"   the bare JSON text
\*         "json"   ```json ... ```
\*         "bare"   ``` ... ```
\*         "prose"  words before the fenced JSON
\*   body  "array"  a JSON array of elements;  "object"  a JSON value that is
\*         no array;  "garbage"  text that is not JSON
Reply(fence, body, items) == [fence |-> fence, body |-> body, items |-> items]

Replies ==
  { Reply("none", "array", items) : items \in SeqsUpTo(ReplyElements, MaxReply) }
  \cup { Reply(f, "array", items) : f \in {"json", "bare", "prose"},
                                    items \in SeqsUpTo(ReplyElements, MaxFenced) }
  \cup { Reply("none", b, <<>>) : b \in {"object", "garbage"} }

\* lines 331-336: the text after trimming and fence stripping is the JSON body
\* only when the text starts with the fence (or has none)
CleanResponse(response) ==
  IF response.fence \in {"none", "json", "bare"}
  THEN [parses |-> response.body # "garbage", body |-> response.body,
        items |-> response.items]
  ELSE [parses |-> FALSE, body |-> "garbage", items |-> <<>>]

\* lines 347-355: the filter predicate on one element.  Reading a property of
\* null throws; of a scalar it gives undefined.
ValidQuestion(q) ==
  /\ q.kind = "object"
  /\ Truthy(q.question)
  /\ q.options.kind = "array"
  /\ q.options.len = 4
  /\ q.correct.kind = "number"
  /\ q.correct.int >= 0
  /\ q.correct.int < 4
  /\ Truthy(q.explanation)

FilterThrows(items) == \E i \in DOMAIN items : items[i].kind = "null"

\* lines 364-372: the question built from an accepted element
MapQuestion(q, index, stamp) ==
  [id |-> <<"ai", stamp, index>>, question |-> q.question.s,
   options |-> Options(q.options.len), correct |-> q.correct,
   explanation |-> q.explanation.s, difficulty |-> "easy",
   topic |-> IF Truthy(q.topic) THEN q.topic.s ELSE "general"]

\* parseQuestionsFromResponse: the questions parsed from a reply text, the
\* empty sequence on every failure (the catch returns [])
ParseQuestionsFromResponse(response, stamp) ==
  LET clean == CleanResponse(response)
      validQuestions == SelectSeqRec(clean.items, {q \in Range(clean.items) : ValidQuestion(q)})
  IN IF ~clean.parses THEN <<>>
     ELSE IF clean.body # "array" THEN <<>>
     ELSE IF FilterThrows(clean.items) THEN <<>>
     ELSE [i \in 1..Len(validQuestions) |-> MapQuestion(validQuestions[i], i - 1, stamp)]

(***************************************************************************)
(* aiService.generateQuestions                                             *)
(***************************************************************************)
\* what the provider call of lines 67-83 can end in
\*   "unconfigured"  no call is made (no credential)
\*   "transport"     the call throws (network, timeout, non-2xx)
\*   "nocontent"     the response carries no content
\*   "reply"         the response carries the text `reply`
Outcome(kind, reply) == [kind |-> kind, reply |-> reply]
NoReply == Reply("none", "garbage", <<>>)

ProviderOutcomes ==
  {Outcome("transport", NoReply), Outcome("nocontent", NoReply)}
  \cup {Outcome("reply", r) : r \in Replies}

\* what a call gives its caller: an exception, or questions with their origin
CallResult(raised, source, batch) ==
  [raised |-> raised, source |-> source, questions |-> batch]

\* lines 63-99, the body of the try block: threw is TRUE when it throws
GenerateTry(outcome, fallback, stamp) ==
  LET aiQuestions == ParseQuestionsFromResponse(outcome.reply, stamp) IN
  CASE outcome.kind = "transport" -> [threw |-> TRUE,  value |-> CallResult(FALSE, "none", <<>>)]
    [] outcome.kind = "nocontent" -> [threw |-> FALSE, value |-> CallResult(FALSE, "fallback", fallback)]
    [] OTHER ->
         IF Len(aiQuestions) = 0
         THEN [threw |-> FALSE, value |-> CallResult(FALSE, "fallback", fallback)]
         ELSE [threw |-> FALSE, value |-> CallResult(FALSE, "ai", aiQuestions)]

\* generateQuestions without its catch block: a provider error reaches the caller
GenerateQuestionsResult_NoCatch(configured, outcome, fallback, stamp) ==
  IF ~configured THEN CallResult(FALSE, "fallback", fallback)
  ELSE LET try == GenerateTry(outcome, fallback, stamp) IN
       IF try.threw THEN CallResult(TRUE, "none", <<>>)
       ELSE try.value

\* generateQuestions (lines 57-104): fallback is the value the call
\* getFallbackQuestions(config.module) returns where the code makes it
GenerateQuestionsResult(configured, outcome, fallback, stamp) ==
  IF ~configured THEN CallResult(FALSE, "fallback", fallback)
  ELSE LET try == GenerateTry(outcome, fallback, stamp) IN
       IF try.threw THEN CallResult(FALSE, "fallback", fallback)
       ELSE try.value

\* QuestionGenerationConfig, the fields the service reads
Config(module, difficulty) == [module |-> module, difficulty |-> difficulty]

\* the module names generateQuestions is called with: the titles App.tsx
\* passes, and module keys
SessionTitles == {ModuleTitle(m) : m \in LearningModules}
GenModules == SessionTitles \cup {"letters", "shapes"}

NoCall ==
  [pc |-> "idle", config |-> Config("", ""), outcome |-> Outcome("unconfigured", NoReply),
   result |-> CallResult(FALSE, "none", <<>>)]

\* aiService.generateQuestions(config) is called: without a credential it
\* returns at once (lines 58-61), otherwise it awaits the provider (line 67)
GenerateQuestions(config) ==
  /\ genCall.pc = "idle"
  /\ IF isConfigured
     THEN genCall' = [NoCall EXCEPT !.pc = "awaiting", !.config = config]
     ELSE \E fallback \in GetFallbackQuestions(config.module, now) :
            genCall' = [pc |-> "returned", config |-> config,
                        outcome |-> Outcome("unconfigured", NoReply),
                        result |-> GenerateQuestionsResult(FALSE, Outcome("unconfigured", NoReply),
                                                           fallback, now)]
  /\ UNCHANGED <<isConfigured, now, analysisCall, bankVars, ledgerVars, appVars>>

\* the provider call settles and generateQuestions runs to its return
GenerateQuestionsSettle ==
  /\ genCall.pc = "awaiting"
  /\ \E outcome \in ProviderOutcomes,
        fallback \in GetFallbackQuestions(genCall.config.module, now) :
       genCall' = [genCall EXCEPT !.pc = "returned", !.outcome = outcome,
                     !.result = GenerateQuestionsResult(isConfigured, outcome, fallback, now)]
  /\ UNCHANGED <<isConfigured, now, analysisCall, bankVars, ledgerVars, appVars>>

\* the caller has consumed the result; the service is ready for another call
GenerateQuestionsDone ==
  /\ genCall.pc = "returned"
  /\ genCall' = NoCall
  /\ UNCHANGED <<isConfigured, now, analysisCall, bankVars, ledgerVars, appVars>>

(***************************************************************************)
(* aiService.analyzeLearningProgress and getFallbackAnalytics              *)
(* (SpecAnalytics)                                                         *)
(***************************************************************************)
\* the keys of progress.moduleProgress in the order App.tsx writes them
\* (lines 146-153); Object.entries and Object.keys keep that order
ModuleKeys == <<"letters", "numbers", "colors", "shapes", "animals", "math">>

\* getModuleDisplayName (lines 860-870): the title, or the key itself
GetModuleDisplayName(moduleKey) ==
  CASE moduleKey = "letters" -> "Letters & Phonics"
    [] moduleKey = "numbers" -> "Numbers & Counting"
    [] moduleKey = "colors"  -> "Colors & Shapes"
    [] moduleKey = "shapes"  -> "Shapes"
    [] moduleKey = "animals" -> "Animals & Nature"
    [] moduleKey = "math"    -> "Simple Math"
    [] OTHER -> moduleKey

\* one string of a report: its fixed words and the module names put into it
Item(text, names) == [text |-> text, names |-> names]
Line(text) == Item(text, <<>>)

\* Array.prototype.map on module keys
DisplayNames(keys) == [i \in DOMAIN keys |-> GetModuleDisplayName(keys[i])]

\* Object.entries(moduleProgress).filter(...): the keys whose count is in hits
EntriesWith(moduleProgress, hits) ==
  SelectSeqRec(ModuleKeys, {k \in DOMAIN moduleProgress : moduleProgress[k] \in hits})

\* Math.round((correctAnswers / totalAnswers) * 100), 0 without answers
AccuracyRate(correctAnswers, totalAnswers) ==
  IF totalAnswers > 0
  THEN (200 * correctAnswers + totalAnswers) \div (2 * totalAnswers)
  ELSE 0

\* a LearningAnalytics value as the caller gets it.  shape is "object" for a
\* JSON object with the four arrays and "scalar" for any other JSON value
Report(source, shape, strengths, areas, topics, tips) ==
  [source |-> source, shape |-> shape, strengths |-> strengths,
   areasForImprovement |-> areas, recommendedNextTopics |-> topics,
   personalizedTips |-> tips]

NoReport == Report("none", "scalar", <<>>, <<>>, <<>>, <<>>)

\* getFallbackAnalytics (lines 754-855); recentTopics is not read
GetFallbackAnalytics(correctAnswers, totalAnswers, moduleProgress) ==
  LET accuracyRate == AccuracyRate(correctAnswers, totalAnswers)
      counts == {moduleProgress[k] : k \in DOMAIN moduleProgress}
      strongModules ==
        DisplayNames(EntriesWith(moduleProgress, {n \in counts : n >= 3}))
      needsPracticeModules ==
        DisplayNames(EntriesWith(moduleProgress, {n \in counts : n > 0 /\ n < 2}))
      \* lines 769-789
      earned ==
        (IF accuracyRate >= 80 THEN <<Line("Excellent accuracy - you're doing amazing!")>>
         ELSE IF accuracyRate >= 60 THEN <<Line("Good problem-solving skills")>>
         ELSE IF totalAnswers > 0 THEN <<Line("Great effort and persistence")>>
         ELSE <<>>)
        \o (IF Len(strongModules) > 0
            THEN <<Item("Strong performance in", strongModules)>> ELSE <<>>)
        \o (IF totalAnswers >= 10
            THEN <<Line("Wonderful dedication to learning")>> ELSE <<>>)
      strengths ==
        IF Len(earned) = 0
        THEN <<Line("Ready and eager to learn"), Line("Positive attitude toward challenges")>>
        ELSE earned
      \* lines 792-806
      found ==
        (IF accuracyRate < 50 /\ totalAnswers > 5
         THEN <<Line("Take time to read questions carefully")>> ELSE <<>>)
        \o (IF Len(needsPracticeModules) > 0
            THEN <<Item("Extra practice with", needsPracticeModules)>> ELSE <<>>)
        \o (IF Cardinality(DOMAIN moduleProgress) < 3
            THEN <<Line("Try exploring different learning topics")>> ELSE <<>>)
      areasForImprovement ==
        IF Len(found) = 0
        THEN <<Line("Continue practicing regularly"), Line("Try new learning modules")>>
        ELSE found
      \* lines 809-828
      allModules == <<"Letters & Phonics", "Numbers & Counting", "Colors & Shapes",
                      "Animals & Nature", "Simple Math", "Shapes">>
      attemptedModules == DOMAIN moduleProgress
      notAttempted ==
        SelectSeqRec(allModules,
                     {module \in Range(allModules) :
                        ~ \E attempted \in attemptedModules :
                            GetModuleDisplayName(attempted) = module})
      suggested ==
        (IF Len(notAttempted) > 0
         THEN [i \in DOMAIN SliceTo(notAttempted, 3) |-> Line(notAttempted[i])]
         ELSE <<>>)
        \o (IF Len(needsPracticeModules) > 0
            THEN <<Item("Review questions", <<needsPracticeModules[1]>>)>> ELSE <<>>)
      recommendedNextTopics ==
        IF Len(suggested) = 0
        THEN <<Line("Letters & Phonics"), Line("Numbers & Counting"), Line("Colors & Shapes")>>
        ELSE suggested
      \* lines 831-847
      personalizedTips ==
        (IF accuracyRate >= 80
         THEN <<Line("You're doing fantastic! Keep up the great work!")>>
         ELSE IF accuracyRate >= 60
         THEN <<Line("Nice progress! Try to slow down and think about each answer.")>>
         ELSE IF totalAnswers > 0
         THEN <<Line("Every mistake is a step toward learning something new!")>>
         ELSE <<>>)
        \o <<Line("Take breaks when you need them - learning should be fun!"),
             Line("Remember, asking questions is a sign of curiosity and intelligence")>>
        \o (IF Len(strongModules) > 0
            THEN <<Item("You're really good at", <<strongModules[1]>>)>>
            ELSE <<Line("Every expert was once a beginner - keep practicing!")>>)
  IN  Report("fallback", "object",
             SliceTo(strengths, 3), SliceTo(areasForImprovement, 3),
             SliceTo(recommendedNextTopics, 4), SliceTo(personalizedTips, 4))

\* the arguments of one analyzeLearningProgress call (recentTopics only goes
\* into the prompt)
AnalysisArgs(correctAnswers, totalAnswers, moduleProgress) ==
  [correctAnswers |-> correctAnswers, totalAnswers |-> totalAnswers,
   moduleProgress |-> moduleProgress]

\* per-module counts explored: none, one (needs practice), three (strong)
MasteryCounts == {0, 1, 3}

\* the moduleProgress records explored: the session's ledger, which always has
\* the six keys (three of them varied), and records with fewer keys, which
\* the service accepts
ModuleProgressRecords ==
  { [k \in Range(ModuleKeys) |->
       CASE k = "letters" -> a [] k = "numbers" -> b [] k = "math" -> c [] OTHER -> 0]
      : a \in MasteryCounts, b \in MasteryCounts, c \in MasteryCounts }
  \cup { [k \in {} |-> 0], [k \in {"letters"} |-> 3], [k \in {"letters", "numbers"} |-> 1] }

\* <<correctAnswers, totalAnswers>> explored: every accuracy band, with and
\* without answers, below and from ten answers
Scores == {<<0, 0>>, <<1, 1>>, <<2, 3>>, <<1, 3>>, <<0, 6>>, <<10, 10>>}

\* lengths of the arrays in a provider's JSON reply
ReplyLengths == {0, 2, 5}
ProviderLines(n) == [i \in 1..n |-> Line("provider text")]

\* what the provider call gives: kind is
\*   "transport"  the request throws
\*   "nocontent"  a response without content (line 253 throws)
\*   "garbage"    content that is not JSON
\*   "fenced"     JSON wrapped in a code fence (line 255 parses the raw content)
\*   "json"       content that JSON.parse accepts; parsed is its value
AnalysisOutcome(kind, parsed) == [kind |-> kind, parsed |-> parsed]

AnalysisOutcomes ==
  {AnalysisOutcome(k, NoReport) : k \in {"transport", "nocontent", "garbage", "fenced"}}
  \cup {AnalysisOutcome("json", Report("ai", "scalar", <<>>, <<>>, <<>>, <<>>))}
  \cup {AnalysisOutcome("json", Report("ai", "object", ProviderLines(s), ProviderLines(a),
                                       ProviderLines(r), ProviderLines(t)))
          : s \in ReplyLengths, a \in ReplyLengths, r \in ReplyLengths, t \in ReplyLengths}

\* analyzeLearningProgress (lines 192-260)
AnalyzeLearningProgressResult(configured, outcome, args) ==
  LET fallback == GetFallbackAnalytics(args.correctAnswers, args.totalAnswers,
                                       args.moduleProgress) IN
  IF ~configured THEN fallback
  ELSE IF outcome.kind = "json" THEN outcome.parsed
  ELSE fallback

NoAnalysis ==
  [pc |-> "idle", args |-> AnalysisArgs(0, 0, [k \in {} |-> 0]),
   outcome |-> AnalysisOutcome("unconfigured", NoReport), result |-> NoReport]

\* aiService.analyzeLearningProgress is called: without a credential it
\* returns at once (lines 198-200), otherwise it awaits the provider (236)
AnalyzeLearningProgress(args) ==
  /\ analysisCall.pc = "idle"
  /\ IF isConfigured
     THEN analysisCall' = [NoAnalysis EXCEPT !.pc = "awaiting", !.args = args]
     ELSE analysisCall' =
            [pc |-> "returned", args |-> args,
             outcome |-> AnalysisOutcome("unconfigured", NoReport),
             result |-> AnalyzeLearningProgressResult(FALSE,
                          AnalysisOutcome("unconfigured", NoReport), args)]
  /\ UNCHANGED <<isConfigured, now, genCall, bankVars, ledgerVars, appVars>>

\* the provider call settles and analyzeLearningProgress runs to its return
AnalyzeLearningProgressSettle ==
  /\ analysisCall.pc = "awaiting"
  /\ \E outcome \in AnalysisOutcomes :
       analysisCall' = [analysisCall EXCEPT !.pc = "returned", !.outcome = outcome,
                          !.result = AnalyzeLearningProgressResult(isConfigured, outcome,
                                                                   analysisCall.args)]
  /\ UNCHANGED <<isConfigured, now, genCall, bankVars, ledgerVars, appVars>>

\* the caller has consumed the report; the service is ready for another call
AnalyzeLearningProgressDone ==
  /\ analysisCall.pc = "returned"
  /\ analysisCall' = NoAnalysis
  /\ UNCHANGED <<isConfigured, now, genCall, bankVars, ledgerVars, appVars>>

(***************************************************************************)
(* aiService.getFallbackQuestions called repeatedly (SpecBank)             *)
(***************************************************************************)
BankModules == {"letters", "numbers", "colors", "shapes", ModuleTitle("letters")}

\* one call getFallbackQuestions(module) at the current time
GetFallbackQuestionsCall(module) ==
  /\ Len(bankCalls) < MaxBankCalls
  /\ \E result \in GetFallbackQuestions(module, now) :
       bankCalls' = Append(bankCalls, [module |-> module, result |-> result])
  /\ UNCHANGED <<isConfigured, now, genVars, ledgerVars, appVars>>

\* time passes between calls
Tick ==
  /\ now < MaxClock
  /\ now' = now + 1
  /\ UNCHANGED <<isConfigured, genVars, bankVars, ledgerVars, appVars>>

(***************************************************************************)
(* DatabaseService.addPoints on the stored child_progress row (SpecLedger) *)
(***************************************************************************)
\* the row initializeChildProgress inserts for a new child (lines 379-394)
NewChildProgress ==
  [total_points |-> 0, total_questions |-> 0, correct_answers |-> 0,
   achievements |-> <<>>, games_unlocked |-> <<>>]

\* the thresholds of lines 442 and 448
GameUnlockPoints == 50
CenturyPoints == 100

Includes(list, x) == \E i \in DOMAIN list : list[i] = x

\* lines 433-450: the row values addPoints computes from the row it read
AddPointsValues(currentProgress, points, correctAnswers, totalQuestions) ==
  LET newTotalPoints == currentProgress.total_points + points
      unlock == newTotalPoints >= GameUnlockPoints
                /\ ~Includes(currentProgress.games_unlocked, "memory_game")
      newGamesUnlocked == IF unlock THEN Append(currentProgress.games_unlocked, "memory_game")
                          ELSE currentProgress.games_unlocked
      achievements1 == IF unlock THEN Append(currentProgress.achievements, "First Game Unlocked!")
                       ELSE currentProgress.achievements
      newAchievements == IF newTotalPoints >= CenturyPoints /\ ~Includes(achievements1, "Century Club")
                         THEN Append(achievements1, "Century Club")
                         ELSE achievements1
  IN [total_points |-> newTotalPoints,
      correct_answers |-> currentProgress.correct_answers + correctAnswers,
      total_questions |-> currentProgress.total_questions + totalQuestions,
      achievements |-> newAchievements,
      games_unlocked |-> newGamesUnlocked]

\* the arguments addPoints is called with: points, with one question answered
AddPointsArgs ==
  {[points |-> p, correctAnswers |-> IF p > 0 THEN 1 ELSE 0, totalQuestions |-> 1]
     : p \in {0, 5, 10, 50}}

\* addPoints(childId, ...) is called and awaits getChildProgress (line 429)
AddPoints(args) ==
  /\ Len(addCalls) < MaxAddCalls
  /\ addCalls' = Append(addCalls, [pc |-> "reading", args |-> args, read |-> NewChildProgress])
  /\ UNCHANGED <<isConfigured, now, genVars, bankVars, childProgress, childVars, appVars>>

\* getChildProgress settles: with an error the call returns (line 430),
\* otherwise it holds the row as it is now and awaits the update (line 452)
AddPointsRead(c) ==
  /\ c \in DOMAIN addCalls
  /\ addCalls[c].pc = "reading"
  /\ \/ addCalls' = [addCalls EXCEPT ![c].pc = "failed"]
     \/ addCalls' = [addCalls EXCEPT ![c].pc = "writing", ![c].read = childProgress]
  /\ UNCHANGED <<isConfigured, now, genVars, bankVars, childProgress, childVars, appVars>>

\* the row values a call that has read the row writes
AddPointsWritten(call) ==
  AddPointsValues(call.read, call.args.points, call.args.correctAnswers,
                  call.args.totalQuestions)

\* the update of lines 452-462 settles: the row takes the computed values
\* and the call returns without error, or the store reports an error, the
\* row stays as it is and the call returns the error (line 464)
AddPointsWrite(c) ==
  /\ c \in DOMAIN addCalls
  /\ addCalls[c].pc = "writing"
  /\ \/ /\ childProgress' = AddPointsWritten(addCalls[c])
        /\ addCalls' = [addCalls EXCEPT ![c].pc = "done"]
     \/ /\ UNCHANGED childProgress
        /\ addCalls' = [addCalls EXCEPT ![c].pc = "failed"]
  /\ UNCHANGED <<isConfigured, now, genVars, bankVars, childVars, appVars>>

(***************************************************************************)
(* MainApp of App.tsx: the quiz session                                    *)
(***************************************************************************)
NullAnswer == -1      \* selectedAnswer = null
NullSession == 0      \* currentSession = null

\* one question of the local bank of App.getFallbackQuestions (lines 400-686)
LocalQuestion(tag, correct, topic) ==
  Question(tag, 0, 0, tag, 4, JNum(correct), "explanation", "easy", topic)

\* fallbackData of App.getFallbackQuestions
FallbackData ==
  [letters |-> << LocalQuestion("fallback-l1", 0, "alphabet sequence"),
                  LocalQuestion("fallback-l2", 0, "letter sounds"),
                  LocalQuestion("fallback-l3", 2, "alphabet sequence"),
                  LocalQuestion("fallback-l4", 1, "letter sounds"),
                  LocalQuestion("fallback-l5", 0, "alphabet sequence") >>,
   numbers |-> << LocalQuestion("fallback-n1", 2, "counting"),
                  LocalQuestion("fallback-n2", 1, "number sequence"),
                  LocalQuestion("fallback-n3", 1, "counting"),
                  LocalQuestion("fallback-n4", 0, "number sequence"),
                  LocalQuestion("fallback-n5", 1, "counting") >>,
   colors  |-> << LocalQuestion("fallback-c1", 1, "color mixing"),
                  LocalQuestion("fallback-c2", 2, "color recognition"),
                  LocalQuestion("fallback-c3", 1, "color mixing"),
                  LocalQuestion("fallback-c4", 1, "color recognition"),
                  LocalQuestion("fallback-c5", 2, "color recognition") >>,
   animals |-> << LocalQuestion("fallback-a1", 2, "animal sounds"),
                  LocalQuestion("fallback-a2", 0, "animal sounds"),
                  LocalQuestion("fallback-a3", 1, "animal sounds"),
                  LocalQuestion("fallback-a4", 2, "animal features"),
                  LocalQuestion("fallback-a5", 1, "animal abilities") >>,
   math    |-> << LocalQuestion("fallback-m1", 1, "addition"),
                  LocalQuestion("fallback-m2", 1, "addition"),
                  LocalQuestion("fallback-m3", 1, "addition"),
                  LocalQuestion("fallback-m4", 1, "addition"),
                  LocalQuestion("fallback-m5", 1, "subtraction") >>,
   shapes  |-> << LocalQuestion("fallback-s1", 1, "shapes"),
                  LocalQuestion("fallback-s2", 2, "shapes"),
                  LocalQuestion("fallback-s3", 2, "shapes"),
                  LocalQuestion("fallback-s4", 2, "shapes"),
                  LocalQuestion("fallback-s5", 2, "shapes") >>]

\* App.getFallbackQuestions (lines 397-687)
GetLocalFallbackQuestions(module) ==
  IF module = "null" THEN <<>>
  ELSE IF module \in DOMAIN FallbackData THEN FallbackData[module] ELSE <<>>

\* getDifficultyForAge (lines 189-194)
GetDifficultyForAge(age) ==
  IF age <= 5 THEN "very_easy"
  ELSE IF age <= 7 THEN "easy"
  ELSE IF age <= 9 THEN "medium"
  ELSE "medium_hard"

\* a count policy that gives every age the count of the youngest
GetQuestionCountForAge_Youngest(age) == 3

\* getQuestionCountForAge (lines 199-204)
GetQuestionCountForAge(age) ==
  IF age <= 5 THEN 3
  ELSE IF age <= 7 THEN 4
  ELSE IF age <= 9 THEN 5
  ELSE 6

\* the initial progress state (lines 141-157)
ZeroProgress ==
  [totalPoints |-> 0, correctAnswers |-> 0, totalAnswers |-> 0, achievements |-> <<>>,
   moduleProgress |-> [m \in LearningModules |-> 0], currentStreak |-> 0,
   recentTopics |-> <<>>]

\* the points of one correct answer (line 300)
PointsPerCorrect == 10
\* the topics kept before the new one is prepended (line 311)
KeptTopics == 9

\* an updater that awards the points of a correct answer to every answer
ApplyOutcome_AlwaysAward(prev, module, isCorrect, newStreak, topic) ==
  [prev EXCEPT
     !.totalPoints = prev.totalPoints + 10,
     !.correctAnswers = prev.correctAnswers + (IF isCorrect THEN 1 ELSE 0),
     !.totalAnswers = prev.totalAnswers + 1,
     !.currentStreak = newStreak,
     !.moduleProgress = [prev.moduleProgress EXCEPT
                           ![module] = prev.moduleProgress[module] + (IF isCorrect THEN 1 ELSE 0)],
     !.recentTopics = <<topic>> \o SliceTo(prev.recentTopics, 9)]

\* an updater that keeps ten earlier topics behind the new one
ApplyOutcome_KeepsTen(prev, module, isCorrect, newStreak, topic) ==
  [prev EXCEPT
     !.totalPoints = prev.totalPoints + (IF isCorrect THEN 10 ELSE 0),
     !.correctAnswers = prev.correctAnswers + (IF isCorrect THEN 1 ELSE 0),
     !.totalAnswers = prev.totalAnswers + 1,
     !.currentStreak = newStreak,
     !.moduleProgress = [prev.moduleProgress EXCEPT
                           ![module] = prev.moduleProgress[module] + (IF isCorrect THEN 1 ELSE 0)],
     !.recentTopics = <<topic>> \o SliceTo(prev.recentTopics, 10)]

\* the setProgress updater of handleAnswerSelect (lines 298-313)
ApplyOutcome(prev, module, isCorrect, newStreak, topic) ==
  [prev EXCEPT
     !.totalPoints = prev.totalPoints + (IF isCorrect THEN PointsPerCorrect ELSE 0),
     !.correctAnswers = prev.correctAnswers + (IF isCorrect THEN 1 ELSE 0),
     !.totalAnswers = prev.totalAnswers + 1,
     !.currentStreak = newStreak,
     !.moduleProgress = [prev.moduleProgress EXCEPT
                           ![module] = prev.moduleProgress[module] + (IF isCorrect THEN 1 ELSE 0)],
     !.recentTopics = <<topic>> \o SliceTo(prev.recentTopics, KeptTopics)]

\* a handler continuation awaiting an external call
\*   "generate"    useAIQuestions.generateQuestions awaiting aiService
\*   "session"     startQuiz awaiting startLearningSession
\*   "response"    handleAnswerSelect awaiting recordQuestionResponse
\*   "encourage"   useAIEncouragement.generateEncouragement awaiting aiService
\*   "totals"      nextQuestion awaiting updateLearningSession
\*   "ledger"      nextQuestion awaiting updateChildProgress
\*   "analyze"     useAIAnalytics.analyzeProgress awaiting aiService
\* with the values its closure holds
Task(kind, module, isCorrect, newStreak, topic, session, seen) ==
  [kind |-> kind, module |-> module, isCorrect |-> isCorrect, newStreak |-> newStreak,
   topic |-> topic, session |-> session, seen |-> seen]

\* the part of progress a nextQuestion closure reads (lines 349-372)
Seen(p) == [correctAnswers |-> p.correctAnswers, totalAnswers |-> p.totalAnswers,
            totalPoints |-> p.totalPoints]
NoSeen == Seen(ZeroProgress)

Pending(kind) == {t \in BagToSet(tasks) : t.kind = kind}
AddTask(t) == tasks (+) SetToBag({t})
RemoveTask(t) == tasks (-) SetToBag({t})
PendingCount == BagCardinality(tasks)

\* the question the quiz view shows
Shown == currentQuestions[currentQuestion + 1]

\* QuizView renders (line 1004) and has a question to show
QuizShown ==
  /\ currentView = "quiz"
  /\ selectedModule # "null"
  /\ Len(currentQuestions) > 0
  /\ currentQuestion < Len(currentQuestions)

\* the replies the provider gives the session for a request about module
\* title: n well-formed questions about it
SessionReply(title, n) ==
  Reply("none", "array",
        [i \in 1..n |-> GoodElement(title, JNum((i - 1) % 4), JAbsent, JStr(title))])

SessionOutcomes(title) ==
  {Outcome("transport", NoReply)} \cup {Outcome("reply", SessionReply(title, n)) : n \in 1..MaxBatch}

\* module buttons that stay enabled while questions load
ModuleButtonDisabled_Never(loading) == FALSE

\* the module buttons of the home view are disabled while questions load (line 814)
ModuleButtonDisabled(loading) == loading

\* handleModuleSelect (lines 170-184) up to the await of line 176, with the
\* synchronous start of useAIQuestions.generateQuestions (hook lines 44-49)
HandleModuleSelect(module) ==
  /\ currentView = "home"
  /\ ~ModuleButtonDisabled(questions.loading)
  /\ PendingCount < budget.pending
  /\ selectedModule' = module
  /\ currentView' = "module"
  /\ IF isConfigured
     THEN /\ questions' = [questions EXCEPT !.loading = TRUE]
          /\ tasks' = AddTask(Task("generate", module, FALSE, 0, "", NullSession, NoSeen))
     ELSE UNCHANGED <<questions, tasks>>
  /\ UNCHANGED <<isConfigured, now, genVars, bankVars, ledgerVars, budget, currentChild, quizVars,
                 progress, currentSession, sessionStartTime, encouragement, analytics,
                 sessionsCreated, applied, ignored, served>>

\* aiService.generateQuestions settles and the hook stores its result
\* (hook lines 49-58)
GenerateSettles(t) ==
  /\ t \in Pending("generate")
  /\ \E outcome \in SessionOutcomes(ModuleTitle(t.module)),
        fallback \in GetFallbackQuestions(ModuleTitle(t.module), now) :
       questions' = [questions |-> GenerateQuestionsResult(isConfigured, outcome, fallback, now).questions,
                     loading |-> FALSE]
  /\ tasks' = RemoveTask(t)
  /\ served' = served \cup {t.module}
  /\ UNCHANGED <<isConfigured, now, genVars, bankVars, ledgerVars, budget, currentChild, currentView,
                 selectedModule, quizVars, progress, currentSession, sessionStartTime,
                 encouragement, analytics, sessionsCreated, applied, ignored>>

\* startQuiz (lines 210-252) up to the await of line 229
StartQuiz ==
  /\ currentView = "module"
  /\ selectedModule # "null"
  /\ ~questions.loading
  /\ sessionsCreated < budget.starts
  /\ PendingCount < budget.pending
  /\ LET maxQuestions == GetQuestionCountForAge(currentChild.age)
         questionsToUse == IF Len(questions.questions) > 0
                           THEN SliceTo(questions.questions, maxQuestions)
                           ELSE SliceTo(GetLocalFallbackQuestions(selectedModule), maxQuestions)
     IN currentQuestions' = questionsToUse
  /\ sessionsCreated' = sessionsCreated + 1
  /\ tasks' = AddTask(Task("session", selectedModule, FALSE, 0, "", sessionsCreated + 1, NoSeen))
  /\ UNCHANGED <<isConfigured, now, genVars, bankVars, ledgerVars, budget, currentChild, currentView,
                 selectedModule, currentQuestion, showAnswer, selectedAnswer, progress,
                 currentSession, sessionStartTime, hookVars, applied, ignored, served>>

\* a startQuiz that stops at a failed session creation
StartQuizSettles_StaysOnError(t, created) ==
  /\ t \in Pending("session")
  /\ IF created
     THEN /\ currentSession' = t.session /\ sessionStartTime' = "set"
          /\ currentView' = "quiz"
     ELSE UNCHANGED <<currentSession, sessionStartTime, currentView>>
  /\ currentQuestion' = 0
  /\ showAnswer' = FALSE
  /\ selectedAnswer' = NullAnswer
  /\ tasks' = RemoveTask(t)
  /\ UNCHANGED <<isConfigured, now, genVars, bankVars, ledgerVars, budget, currentChild,
                 selectedModule, currentQuestions, progress, hookVars, sessionsCreated,
                 applied, ignored, served>>

\* startLearningSession settles: with a session record (created TRUE) or with
\* an error; startQuiz runs to its end (lines 240-251)
StartQuizSettles(t, created) ==
  /\ t \in Pending("session")
  /\ IF created
     THEN currentSession' = t.session /\ sessionStartTime' = "set"
     ELSE UNCHANGED <<currentSession, sessionStartTime>>
  /\ currentView' = "quiz"
  /\ currentQuestion' = 0
  /\ showAnswer' = FALSE
  /\ selectedAnswer' = NullAnswer
  /\ tasks' = RemoveTask(t)
  /\ UNCHANGED <<isConfigured, now, genVars, bankVars, ledgerVars, budget, currentChild, selectedModule,
                 currentQuestions, progress, hookVars, sessionsCreated, applied, ignored, served>>

\* number of pending continuations of one kind
CountKind(kind) == BagCardinality([t \in Pending(kind) |-> tasks[t]])

\* useAIEncouragement.generateEncouragement up to its await (hook lines 84-88),
\* called at line 317 when AI is enabled; gives the hook state and the tasks
EncouragementAfter(base, isCorrect, newStreak) ==
  IF isConfigured
  THEN <<[encouragement EXCEPT !.loading = TRUE],
         base (+) SetToBag({Task("encourage", "null", isCorrect, newStreak, "", NullSession, NoSeen)})>>
  ELSE <<encouragement, base>>

\* a handler without the early return
AnswerLocked_Never(revealed) == FALSE

\* the answer buttons' handler returns at once when the answer is revealed (line 259)
AnswerLocked(revealed) == revealed

\* handleAnswerSelect (lines 258-328) up to its first await
HandleAnswerSelect(answerIndex) ==
  /\ QuizShown
  /\ IF AnswerLocked(showAnswer)
     THEN /\ ignored' = TRUE
          /\ UNCHANGED <<showAnswer, selectedAnswer, progress, encouragement, tasks, applied>>
     ELSE /\ Len(applied) + CountKind("response") < budget.answers
          /\ PendingCount < budget.pending
          /\ selectedAnswer' = answerIndex
          /\ showAnswer' = TRUE
          /\ LET isCorrect == JNum(answerIndex) = Shown.correct
                 newStreak == IF isCorrect THEN progress.currentStreak + 1 ELSE 0
             IN IF currentSession # NullSession
                THEN /\ tasks' = AddTask(Task("response", selectedModule, isCorrect, newStreak,
                                              Shown.topic, currentSession, NoSeen))
                     /\ UNCHANGED <<progress, encouragement, applied>>
                ELSE /\ progress' = ApplyOutcome(progress, selectedModule, isCorrect, newStreak,
                                                 Shown.topic)
                     /\ applied' = Append(applied, isCorrect)
                     /\ encouragement' = EncouragementAfter(tasks, isCorrect, newStreak)[1]
                     /\ tasks' = EncouragementAfter(tasks, isCorrect, newStreak)[2]
          /\ UNCHANGED ignored
  /\ UNCHANGED <<isConfigured, now, genVars, bankVars, ledgerVars, budget, currentChild, currentView,
                 selectedModule, currentQuestions, currentQuestion, currentSession,
                 sessionStartTime, questions, analytics, sessionsCreated, served>>

\* recordQuestionResponse settles, with the record stored or with an error
\* that line 293 logs: handleAnswerSelect goes on from line 297
ResponseSettles(t) ==
  /\ t \in Pending("response")
  /\ progress' = ApplyOutcome(progress, t.module, t.isCorrect, t.newStreak, t.topic)
  /\ applied' = Append(applied, t.isCorrect)
  /\ encouragement' = EncouragementAfter(RemoveTask(t), t.isCorrect, t.newStreak)[1]
  /\ tasks' = EncouragementAfter(RemoveTask(t), t.isCorrect, t.newStreak)[2]
  /\ UNCHANGED <<isConfigured, now, genVars, bankVars, ledgerVars, budget, currentChild, currentView,
                 selectedModule, quizVars, currentSession, sessionStartTime, questions,
                 analytics, sessionsCreated, ignored, served>>

\* aiService.generateEncouragement settles, with the provider's message or
\* the local one, and the hook stores it (hook lines 88-95)
EncouragementSettles(t, source) ==
  /\ t \in Pending("encourage")
  /\ encouragement' = [encouragement |-> [source |-> source, isCorrect |-> t.isCorrect,
                                          streak |-> t.newStreak],
                       loading |-> FALSE]
  /\ tasks' = RemoveTask(t)
  /\ UNCHANGED <<isConfigured, now, genVars, bankVars, ledgerVars, budget, currentChild, currentView,
                 selectedModule, quizVars, progress, currentSession, sessionStartTime,
                 questions, analytics, sessionsCreated, applied, ignored, served>>

\* nextQuestion from line 365: analytics.analyzeProgress (hook lines 121-137)
\* and line 374.  An unconfigured aiService answers without leaving the
\* handler's turn; a configured one leaves a continuation.
AnalyzeFrom(base, seen) ==
  IF isConfigured
  THEN /\ analytics' = [analytics EXCEPT !.loading = TRUE]
       /\ tasks' = base (+) SetToBag({Task("analyze", "null", FALSE, 0, "", NullSession, seen)})
       /\ UNCHANGED currentView
  ELSE /\ analytics' = [analytics |-> [source |-> "fallback", seen |-> seen], loading |-> FALSE]
       /\ tasks' = base
       /\ currentView' = "analytics"

\* a Next/Finish button that waits for the encouragement
NextButtonShown_AfterFeedback == QuizShown /\ showAnswer /\ ~encouragement.loading

\* the quiz view shows the Next/Finish button (lines 1133-1140) with the
\* revealed answer, whether or not encouragement is loading (lines 1123-1131)
NextButtonShown == QuizShown /\ showAnswer

\* nextQuestion (lines 334-376) up to its first await
NextQuestion ==
  /\ NextButtonShown
  /\ IF currentQuestion < Len(currentQuestions) - 1
     THEN /\ currentQuestion' = currentQuestion + 1
          /\ showAnswer' = FALSE
          /\ selectedAnswer' = NullAnswer
          /\ UNCHANGED <<currentView, analytics, tasks>>
     ELSE /\ PendingCount < budget.pending
          /\ IF currentSession # NullSession /\ sessionStartTime # "null"
             THEN /\ tasks' = AddTask(Task("totals", selectedModule, FALSE, 0, "",
                                           currentSession, Seen(progress)))
                  /\ UNCHANGED <<currentView, analytics>>
             ELSE AnalyzeFrom(tasks, Seen(progress))
          /\ UNCHANGED <<currentQuestion, showAnswer, selectedAnswer>>
  /\ UNCHANGED <<isConfigured, now, genVars, bankVars, ledgerVars, budget, currentChild, selectedModule,
                 currentQuestions, progress, currentSession, sessionStartTime, questions,
                 encouragement, sessionsCreated, applied, ignored, served>>

\* updateLearningSession settles: stored (line 355 goes on to
\* updateChildProgress) or failed (the catch of line 361, then line 365)
TotalsSettles(t, stored) ==
  /\ t \in Pending("totals")
  /\ IF stored
     THEN /\ tasks' = RemoveTask(t) (+) SetToBag({[t EXCEPT !.kind = "ledger"]})
          /\ UNCHANGED <<currentView, analytics>>
     ELSE AnalyzeFrom(RemoveTask(t), t.seen)
  /\ UNCHANGED <<isConfigured, now, genVars, bankVars, ledgerVars, budget, currentChild, selectedModule,
                 quizVars, progress, currentSession, sessionStartTime, questions,
                 encouragement, sessionsCreated, applied, ignored, served>>

\* updateChildProgress settles, stored or failed: nextQuestion goes on from line 365
LedgerSettles(t) ==
  /\ t \in Pending("ledger")
  /\ AnalyzeFrom(RemoveTask(t), t.seen)
  /\ UNCHANGED <<isConfigured, now, genVars, bankVars, ledgerVars, budget, currentChild, selectedModule,
                 quizVars, progress, currentSession, sessionStartTime, questions,
                 encouragement, sessionsCreated, applied, ignored, served>>

\* aiService.analyzeLearningProgress settles, with the provider's report or
\* the local one; the hook stores it and nextQuestion shows it (line 374)
AnalyzeSettles(t, source) ==
  /\ t \in Pending("analyze")
  /\ analytics' = [analytics |-> [source |-> source, seen |-> t.seen], loading |-> FALSE]
  /\ currentView' = "analytics"
  /\ tasks' = RemoveTask(t)
  /\ UNCHANGED <<isConfigured, now, genVars, bankVars, ledgerVars, budget, currentChild, selectedModule,
                 quizVars, progress, currentSession, sessionStartTime, questions,
                 encouragement, sessionsCreated, applied, ignored, served>>

\* the view shown has a home button: the module view (line 911), the quiz
\* view (line 1016) and the analytics view (lines 1161, 1227), each only when
\* it renders (lines 900, 1004, 1155 and 1211)
HomeButtonShown ==
  \/ currentView = "module" /\ selectedModule # "null"
  \/ currentView = "quiz" /\ selectedModule # "null" /\ Len(currentQuestions) > 0
  \/ currentView = "analytics"
       /\ (analytics.loading \/ analytics.analytics.source # "null")

\* a goHome that also drops the analytics report
GoHome_DropsReport ==
  /\ HomeButtonShown
  /\ currentView' = "home"
  /\ selectedModule' = "null"
  /\ currentQuestion' = 0
  /\ showAnswer' = FALSE
  /\ selectedAnswer' = NullAnswer
  /\ currentQuestions' = <<>>
  /\ analytics' = [analytics |-> [source |-> "null", seen |-> NoSeen], loading |-> FALSE]
  /\ UNCHANGED <<isConfigured, now, genVars, bankVars, ledgerVars, budget, currentChild, progress,
                 currentSession, sessionStartTime, questions, encouragement, tasks,
                 sessionsCreated, applied, ignored, served>>

\* goHome (lines 381-391), from the home button of the view shown
GoHome ==
  /\ HomeButtonShown
  /\ currentView' = "home"
  /\ selectedModule' = "null"
  /\ currentQuestion' = 0
  /\ showAnswer' = FALSE
  /\ selectedAnswer' = NullAnswer
  /\ currentQuestions' = <<>>
  /\ UNCHANGED <<isConfigured, now, genVars, bankVars, ledgerVars, budget, currentChild, progress,
                 currentSession, sessionStartTime, hookVars, tasks, sessionsCreated, applied,
                 ignored, served>>

(***************************************************************************)
(* Initial values                                                          *)
(***************************************************************************)
\* the state of MainApp after a new child is selected (lines 110-164)
NoEncouragement == [source |-> "null", isCorrect |-> FALSE, streak |-> 0]
NoAnalytics == [source |-> "null", seen |-> NoSeen]
ChildAges == {5}
\* the indexes of the four answer buttons (line 1050)
AnswerIndexes == 0..3
\* the modules chosen on the home view
SessionModules == {"letters", "math"}
\* what one behaviour of the session explores
SessionBudget == [answers |-> MaxAnswers, starts |-> MaxQuizStarts, pending |-> MaxPending]
InitApp(age) ==
  /\ currentChild = [id |-> 1, age |-> age]
  /\ children = {currentChild}
  /\ showChildSelection = FALSE
  /\ childTasks = EmptyBag
  /\ currentView = "home"
  /\ selectedModule = "null"
  /\ currentQuestions = <<>>
  /\ currentQuestion = 0
  /\ showAnswer = FALSE
  /\ selectedAnswer = NullAnswer
  /\ progress = ZeroProgress
  /\ currentSession = NullSession
  /\ sessionStartTime = "null"
  /\ questions = [questions |-> <<>>, loading |-> FALSE]
  /\ encouragement = [encouragement |-> NoEncouragement, loading |-> FALSE]
  /\ analytics = [analytics |-> NoAnalytics, loading |-> FALSE]
  /\ tasks = EmptyBag
  /\ sessionsCreated = 0
  /\ applied = <<>>
  /\ ignored = FALSE
  /\ served = {}

InitGen == genCall = NoCall /\ analysisCall = NoAnalysis
InitBank == bankCalls = <<>>
InitLedger ==
  /\ childProgress = NewChildProgress
  /\ addCalls = <<>>

(***************************************************************************)
(* MainApp of App.tsx: choosing and creating the child (SpecChildren)      *)
(***************************************************************************)
\* currentChild = null (line 110)
NoChild == [id |-> 0, age |-> 0]

\* the children the parent has in the store when the app is opened
StoredChildren == {[id |-> 1, age |-> 5], [id |-> 2, age |-> 7]}

\* the child created during the behaviour, with the age chosen on the form
\* (lines 1655-1663)
NewChildAges == {5, 10}
NewChild(age) == [id |-> 3, age |-> age]

\* the child_progress rows of the store: the first child has played, the
\* others have the row initializeChildProgress inserted (lines 379-394)
StoredRow(id) ==
  IF id = 1
  THEN [total_points |-> 30, total_questions |-> 4, correct_answers |-> 3,
        achievements |-> <<>>, current_streak |-> 2,
        modules_completed |-> [m \in {"letters"} |-> 3]]
  ELSE [total_points |-> 0, total_questions |-> 0, correct_answers |-> 0,
        achievements |-> <<>>, current_streak |-> 0,
        modules_completed |-> [m \in {} |-> 0]]

\* loadChildProgress (lines 1776-1818) on a row: the UserProgress it builds
ConvertRow(progressData) ==
  LET modulesCompleted == progressData.modules_completed IN
  [totalPoints |-> progressData.total_points,
   correctAnswers |-> progressData.correct_answers,
   totalAnswers |-> progressData.total_questions,
   achievements |-> progressData.achievements,
   moduleProgress |-> [m \in LearningModules |->
                         IF m \in DOMAIN modulesCompleted THEN modulesCompleted[m] ELSE 0],
   currentStreak |-> progressData.current_streak,
   recentTopics |-> <<>>]

\* loadChildProgress (lines 1776-1863): what it returns when getChildProgress
\* gives the row ("row"), no row ("norow") or an error ("error")
LoadChildProgress(child, outcome) ==
  IF outcome = "row" THEN ConvertRow(StoredRow(child.id)) ELSE ZeroProgress

\* a selectChild or createNewChild call awaiting the store
ChildTask(kind, child) == [kind |-> kind, child |-> child]

\* the selection view is rendered instead of the app's views (line 1867)
ChildSelectionShown == showChildSelection \/ currentChild = NoChild

\* what the child selection actions leave alone
sessionVars ==
  <<isConfigured, now, genVars, bankVars, childProgress, addCalls, currentView,
    selectedModule, quizVars, currentSession, sessionStartTime, hookVars, tasks,
    sessionsCreated, applied, ignored, served, budget>>

\* the Switch Child button of the home view (line 734)
SwitchChild ==
  /\ ~ChildSelectionShown
  /\ currentView = "home"
  /\ showChildSelection' = TRUE
  /\ UNCHANGED <<sessionVars, currentChild, progress, children, childTasks>>

\* selectChild (lines 1742-1771) up to the await of loadChildProgress
SelectChild(child) ==
  /\ ChildSelectionShown
  /\ child \in children
  /\ BagCardinality(childTasks) < MaxChildTasks
  /\ currentChild' = child
  /\ showChildSelection' = FALSE
  /\ childTasks' = childTasks (+) SetToBag({ChildTask("load", child)})
  /\ UNCHANGED <<sessionVars, progress, children>>

\* loadChildProgress settles and selectChild stores what it built (line 1749)
SelectChildSettles(t, outcome) ==
  /\ t \in BagToSet(childTasks)
  /\ t.kind = "load"
  /\ progress' = LoadChildProgress(t.child, outcome)
  /\ childTasks' = childTasks (-) SetToBag({t})
  /\ UNCHANGED <<sessionVars, currentChild, children, showChildSelection>>

\* createNewChild (lines 1719-1740) up to the await of createChild
CreateNewChild(age) ==
  /\ ChildSelectionShown
  /\ NewChild(age) \notin children
  /\ \A t \in BagToSet(childTasks) : t.kind # "create"
  /\ BagCardinality(childTasks) < MaxChildTasks
  /\ childTasks' = childTasks (+) SetToBag({ChildTask("create", NewChild(age))})
  /\ UNCHANGED <<sessionVars, currentChild, progress, children, showChildSelection>>

\* createChild settles: with the new child (lines 1732-1736) or with an
\* error or exception (lines 1726-1729, 1737-1739)
CreateNewChildSettles(t, created) ==
  /\ t \in BagToSet(childTasks)
  /\ t.kind = "create"
  /\ childTasks' = childTasks (-) SetToBag({t})
  /\ IF created
     THEN /\ children' = children \cup {t.child}
          /\ currentChild' = t.child
          /\ showChildSelection' = FALSE
     ELSE UNCHANGED <<children, currentChild, showChildSelection>>
  /\ UNCHANGED <<sessionVars, progress>>

(***************************************************************************)
(* SpecGen: calls of generateQuestions on a service constructed with or    *)
(* without a credential                                                    *)
(***************************************************************************)
GenInit ==
  /\ isConfigured \in BOOLEAN
  /\ now = 0
  /\ InitGen /\ InitBank /\ InitLedger /\ InitApp(5) /\ budget = SessionBudget

GenNext ==
  \/ \E module \in GenModules, difficulty \in {"very_easy", "medium"} :
       GenerateQuestions(Config(module, difficulty))
  \/ GenerateQuestionsSettle
  \/ GenerateQuestionsDone

SpecGen == GenInit /\ [][GenNext]_vars

(***************************************************************************)
(* SpecBank: successive calls of getFallbackQuestions as time passes       *)
(***************************************************************************)
BankInit ==
  /\ isConfigured = FALSE
  /\ now = 0
  /\ InitGen /\ InitBank /\ InitLedger /\ InitApp(5) /\ budget = SessionBudget

BankNext ==
  \/ \E module \in BankModules : GetFallbackQuestionsCall(module)
  \/ Tick

SpecBank == BankInit /\ [][BankNext]_vars

(***************************************************************************)
(* SpecLedger: addPoints calls on one child's row, overlapping or not      *)
(***************************************************************************)
LedgerInit ==
  /\ isConfigured = FALSE
  /\ now = 0
  /\ InitGen /\ InitBank /\ InitLedger /\ InitApp(5) /\ budget = SessionBudget

LedgerNext ==
  \/ \E args \in AddPointsArgs : AddPoints(args)
  \/ \E c \in 1..MaxAddCalls : AddPointsRead(c)
  \/ \E c \in 1..MaxAddCalls : AddPointsWrite(c)

SpecLedger == LedgerInit /\ [][LedgerNext]_vars

(***************************************************************************)
(* Spec: one login of one child, the service configured or not             *)
(***************************************************************************)
Init ==
  /\ isConfigured \in BOOLEAN
  /\ now = 0
  /\ InitGen /\ InitBank /\ InitLedger
  /\ \E age \in ChildAges : InitApp(age)
  /\ budget = SessionBudget

Next ==
  \/ \E module \in SessionModules : HandleModuleSelect(module)
  \/ \E t \in BagToSet(tasks) : GenerateSettles(t)
  \/ StartQuiz
  \/ \E t \in BagToSet(tasks), created \in BOOLEAN : StartQuizSettles(t, created)
  \/ \E answerIndex \in AnswerIndexes : HandleAnswerSelect(answerIndex)
  \/ \E t \in BagToSet(tasks) : ResponseSettles(t)
  \/ \E t \in BagToSet(tasks), source \in {"ai", "fallback"} : EncouragementSettles(t, source)
  \/ NextQuestion
  \/ \E t \in BagToSet(tasks), stored \in BOOLEAN : TotalsSettles(t, stored)
  \/ \E t \in BagToSet(tasks) : LedgerSettles(t)
  \/ \E t \in BagToSet(tasks), source \in {"ai", "fallback"} : AnalyzeSettles(t, source)
  \/ GoHome

Spec == Init /\ [][Next]_vars

(***************************************************************************)
(* SpecScenario: an older child answers two quizzes in a row, the service  *)
(* not configured, every write settling before the next handler runs       *)
(***************************************************************************)
ScenarioAges == {10}
ScenarioBudget ==
  [answers |-> ScenarioAnswers, starts |-> ScenarioStarts, pending |-> ScenarioPending]

ScenarioInit ==
  /\ isConfigured = FALSE
  /\ now = 0
  /\ InitGen /\ InitBank /\ InitLedger
  /\ \E age \in ScenarioAges : InitApp(age)
  /\ budget = ScenarioBudget

ScenarioNext ==
  \/ \E module \in SessionModules : HandleModuleSelect(module)
  \/ StartQuiz
  \/ \E t \in BagToSet(tasks), created \in BOOLEAN : StartQuizSettles(t, created)
  \/ \E answerIndex \in AnswerIndexes : HandleAnswerSelect(answerIndex)
  \/ \E t \in BagToSet(tasks) : ResponseSettles(t)
  \/ NextQuestion
  \/ \E t \in BagToSet(tasks), stored \in BOOLEAN : TotalsSettles(t, stored)
  \/ \E t \in BagToSet(tasks) : LedgerSettles(t)
  \/ GoHome

SpecScenario == ScenarioInit /\ [][ScenarioNext]_vars

(***************************************************************************)
(* SpecLater: the session later in a login, back on the home view after    *)
(* quizzes left unfinished, the service not configured                     *)
(***************************************************************************)
\* the numbers of answers given earlier in the login
EarlierAnswers == {0, 8, 10}

\* the ledger after n wrong answers to the questions of the numbers bank:
\* n answers counted, no points, and the topics of those questions, newest
\* first, ten at most (lines 298-313)
EarlierLedger(n) ==
  [ZeroProgress EXCEPT
     !.totalAnswers = n,
     !.recentTopics = [i \in 1..(IF n < KeptTopics + 1 THEN n ELSE KeptTopics + 1) |->
                         IF i % 2 = 1 THEN "counting" ELSE "number sequence"]]

LaterInit ==
  /\ isConfigured = FALSE
  /\ now = 0
  /\ InitGen /\ InitBank /\ InitLedger
  /\ currentChild = [id |-> 1, age |-> 5]
  /\ children = {currentChild}
  /\ showChildSelection = FALSE
  /\ childTasks = EmptyBag
  /\ currentView = "home"
  /\ selectedModule = "null"
  /\ currentQuestions = <<>>
  /\ currentQuestion = 0
  /\ showAnswer = FALSE
  /\ selectedAnswer = NullAnswer
  /\ \E n \in EarlierAnswers : progress = EarlierLedger(n)
  /\ currentSession = NullSession
  /\ sessionStartTime = "null"
  /\ questions = [questions |-> <<>>, loading |-> FALSE]
  /\ encouragement = [encouragement |-> NoEncouragement, loading |-> FALSE]
  /\ analytics = [analytics |-> NoAnalytics, loading |-> FALSE]
  /\ tasks = EmptyBag
  /\ sessionsCreated = 0
  /\ applied = <<>>
  /\ ignored = FALSE
  /\ served = {}
  /\ budget = SessionBudget

SpecLater == LaterInit /\ [][ScenarioNext]_vars

(***************************************************************************)
(* SpecChildren: the parent chooses, switches and creates children; the    *)
(* app has been opened and loadChildren has listed two children (1699-1713)*)
(***************************************************************************)
ChildrenInit ==
  /\ isConfigured = FALSE
  /\ now = 0
  /\ InitGen /\ InitBank
  /\ childProgress = NewChildProgress
  /\ addCalls = <<>>
  /\ currentChild = NoChild
  /\ children = StoredChildren
  /\ showChildSelection = TRUE
  /\ childTasks = EmptyBag
  /\ currentView = "home"
  /\ selectedModule = "null"
  /\ currentQuestions = <<>>
  /\ currentQuestion = 0
  /\ showAnswer = FALSE
  /\ selectedAnswer = NullAnswer
  /\ progress = ZeroProgress
  /\ currentSession = NullSession
  /\ sessionStartTime = "null"
  /\ questions = [questions |-> <<>>, loading |-> FALSE]
  /\ encouragement = [encouragement |-> NoEncouragement, loading |-> FALSE]
  /\ analytics = [analytics |-> NoAnalytics, loading |-> FALSE]
  /\ tasks = EmptyBag
  /\ sessionsCreated = 0
  /\ applied = <<>>
  /\ ignored = FALSE
  /\ served = {}
  /\ budget = SessionBudget

ChildrenNext ==
  \/ SwitchChild
  \/ \E child \in StoredChildren \cup {NewChild(age) : age \in NewChildAges} : SelectChild(child)
  \/ \E t \in BagToSet(childTasks), outcome \in {"row", "norow", "error"} :
       SelectChildSettles(t, outcome)
  \/ \E age \in NewChildAges : CreateNewChild(age)
  \/ \E t \in BagToSet(childTasks), created \in BOOLEAN : CreateNewChildSettles(t, created)

SpecChildren == ChildrenInit /\ [][ChildrenNext]_vars

(***************************************************************************)
(* SpecAnalytics: calls of analyzeLearningProgress on a service            *)
(* constructed with or without a credential                                *)
(***************************************************************************)
AnalyticsInit ==
  /\ isConfigured \in BOOLEAN
  /\ now = 0
  /\ InitGen /\ InitBank /\ InitLedger /\ InitApp(5) /\ budget = SessionBudget

AnalyticsNext ==
  \/ \E score \in Scores, moduleProgress \in ModuleProgressRecords :
       AnalyzeLearningProgress(AnalysisArgs(score[1], score[2], moduleProgress))
  \/ AnalyzeLearningProgressSettle
  \/ AnalyzeLearningProgressDone

SpecAnalytics == AnalyticsInit /\ [][AnalyticsNext]_vars

(***************************************************************************)
(* Properties of generateQuestions (SpecGen)                               *)
(***************************************************************************)
\* the acceptance rule for one reply element: a non-empty prompt, exactly 4
\* options, a correct index in range and a non-empty explanation
Acceptable(q) ==
  /\ q.kind = "object"
  /\ q.question.kind = "string" /\ q.question.s # ""
  /\ q.options.kind = "array" /\ q.options.len = 4
  /\ q.correct.kind = "number" /\ q.correct.int >= 0 /\ q.correct.int <= 3
  /\ q.explanation.kind = "string" /\ q.explanation.s # ""

AcceptableOf(items) == SelectSeqRec(items, {q \in Range(items) : Acceptable(q)})

Returned == genCall.pc = "returned"
ReplyText == genCall.outcome.reply
IsJsonReply == genCall.outcome.kind = "reply" /\ ReplyText.fence # "prose" /\ ReplyText.body # "garbage"
IsArrayReply == IsJsonReply /\ ReplyText.body = "array"

MissingCredential == genCall.outcome.kind = "unconfigured"
TransportError    == genCall.outcome.kind = "transport"
NonJsonReply      == genCall.outcome.kind = "reply" /\ ~IsJsonReply
SchemaInvalidReply ==
  \/ IsJsonReply /\ ~IsArrayReply
  \/ IsArrayReply /\ AcceptableOf(ReplyText.items) = <<>>

IsFallbackFor(batch, module) == batch \in GetFallbackQuestions(module, now)

C6_AcceptedBatchWellFormed ==
  (Returned /\ genCall.result.source = "ai") =>
    \A i \in DOMAIN genCall.result.questions :
      LET q == genCall.result.questions[i] IN
      /\ Len(q.options) = 4
      /\ IsInteger(q.correct) /\ q.correct.int \in 0..3
      /\ q.question # ""
      /\ q.explanation # ""

\* C7: for a reply that is an array, the returned batch is exactly the valid
\* elements in their original order; when none is valid, the fallback batch.
C7_ValidElementsInOrder ==
  (Returned /\ IsArrayReply) =>
    LET valid == AcceptableOf(ReplyText.items)
        got == genCall.result.questions
    IN IF valid = <<>>
       THEN /\ genCall.result.source = "fallback"
            /\ IsFallbackFor(got, genCall.config.module)
       ELSE /\ genCall.result.source = "ai"
            /\ Len(got) = Len(valid)
            /\ \A i \in DOMAIN valid :
                 /\ got[i].question = valid[i].question.s
                 /\ got[i].correct = valid[i].correct
                 /\ Len(got[i].options) = valid[i].options.len
                 /\ got[i].explanation = valid[i].explanation.s

\* the elements of the reply that the filter of lines 347-355 keeps, in order
KeptElements ==
  LET items == CleanResponse(ReplyText).items IN
  SelectSeqRec(items, {q \in Range(items) : ValidQuestion(q)})

\* C24: each question accepted from the provider carries the difficulty the
\* provider gave for it, and the difficulty configured in the request when
\* the provider gave none.
C24_DifficultyAsConfigured ==
  (Returned /\ genCall.result.source = "ai") =>
    \A i \in DOMAIN genCall.result.questions :
      /\ i \in DOMAIN KeptElements
      /\ genCall.result.questions[i].difficulty
           = IF Truthy(KeptElements[i].difficulty)
             THEN KeptElements[i].difficulty.s
             ELSE genCall.config.difficulty

\* C9: for every module the session can select, the fallback generateQuestions
\* substitutes on failure for the module name the session passes is non-empty.
C9_SessionFallbackNonEmpty ==
  (Returned /\ genCall.result.source = "fallback" /\ genCall.config.module \in SessionTitles)
    => genCall.result.questions # <<>>

(***************************************************************************)
(* Properties of getFallbackQuestions (SpecBank)                           *)
(***************************************************************************)
\* C8: two calls of the fallback question function with identical arguments
\* return identical sequences of questions.
C8_FallbackDeterministic ==
  \A i, j \in DOMAIN bankCalls :
    bankCalls[i].module = bankCalls[j].module => bankCalls[i].result = bankCalls[j].result

(***************************************************************************)
(* Properties of the stored progress row (SpecLedger)                      *)
(***************************************************************************)
\* C10: across any sequence of ledger updates, achievements and unlocked
\* games are never removed.
C10_AchievementsNeverRemoved ==
  [][ /\ Range(childProgress.achievements) \subseteq Range(childProgress'.achievements)
      /\ Range(childProgress.games_unlocked) \subseteq Range(childProgress'.games_unlocked)
    ]_vars

RECURSIVE SumOfDone(_, _)
\* the sum of one argument over the calls that returned without error
SumOfDone(calls, field) ==
  IF calls = <<>> THEN 0
  ELSE (IF Head(calls).pc = "done" THEN Head(calls).args[field] ELSE 0)
       + SumOfDone(Tail(calls), field)

AllCallsReturned == \A c \in DOMAIN addCalls : addCalls[c].pc \in {"done", "failed"}

\* C30: when addPoints calls for one child overlap, no update is lost: once
\* the calls have returned, the stored total_points, total_questions and
\* correct_answers are the starting values plus the increments of every call
\* that returned without error.
C30_NoLostUpdate ==
  AllCallsReturned =>
    /\ childProgress.total_points
         = NewChildProgress.total_points + SumOfDone(addCalls, "points")
    /\ childProgress.total_questions
         = NewChildProgress.total_questions + SumOfDone(addCalls, "totalQuestions")
    /\ childProgress.correct_answers
         = NewChildProgress.correct_answers + SumOfDone(addCalls, "correctAnswers")

(***************************************************************************)
(* Properties of the quiz session (Spec)                                   *)
(***************************************************************************)
CorrectIn(outcomes) == Cardinality({i \in DOMAIN outcomes : outcomes[i]})

\* length of the run of correct outcomes at the end of a history
TrailingRun(outcomes) ==
  LET wrong == {i \in DOMAIN outcomes : ~outcomes[i]}
  IN IF wrong = {} THEN Len(outcomes)
     ELSE Len(outcomes) - (CHOOSE i \in wrong : \A j \in wrong : j <= i)

\* a question made for a module: a provider question about the module's
\* title, or a question of the module's local bank
MadeFor(q, module) ==
  \/ q.id[1] = "ai" /\ q.question = ModuleTitle(module)
  \/ q \in Range(GetLocalFallbackQuestions(module))

\* C1: starting from a zeroed ledger, after N outcomes of which C are
\* correct have been applied by the answer handler, totalPoints is 10 * C,
\* correctAnswers is C and totalAnswers is N.
C1_LedgerCountsOutcomes ==
  /\ progress.totalPoints = 10 * CorrectIn(applied)
  /\ progress.correctAnswers = CorrectIn(applied)
  /\ progress.totalAnswers = Len(applied)

C1_Witness ==
  /\ Len(applied) = 3
  /\ CorrectIn(applied) = 2
  /\ progress.totalPoints = 20

\* C2: after every answer applied to the ledger, whatever the interleaving
\* of the pending response write with Next and the following answer
\* selection, currentStreak is the length of the trailing run of correct
\* outcomes.
C2_StreakIsTrailingRun ==
  progress.currentStreak = TrailingRun(applied)

\* C3: an answer selection made while the answer is revealed changes
\* neither the ledger, nor selectedAnswer, nor the reveal flag.
C3_SecondSelectionIsNoOp ==
  [][ \A answerIndex \in 0..3 :
        (showAnswer /\ HandleAnswerSelect(answerIndex))
          => UNCHANGED <<progress, selectedAnswer, showAnswer, applied, tasks>> ]_vars

C3_Witness ==
  /\ ignored
  /\ showAnswer
  /\ selectedAnswer # NullAnswer
  /\ Len(applied) + CountKind("response") > 0

\* C4: the question set a module's quiz is started from, and the question
\* set of the quiz, come from the request made for the selected module: a
\* late result of an earlier module's request never replaces them.
C4_QuestionsOfSelectedModule ==
  /\ (selectedModule # "null" /\ ~questions.loading)
       => \A q \in Range(questions.questions) : MadeFor(q, selectedModule)
  /\ (selectedModule # "null")
       => \A q \in Range(currentQuestions) : MadeFor(q, selectedModule)

C4_Witness ==
  /\ currentView = "quiz"
  /\ selectedModule = "math"
  /\ currentQuestions # <<>>
  /\ \A q \in Range(currentQuestions) : q.id[1] = "ai" /\ q.question = ModuleTitle("math")
  /\ "letters" \in served

(***************************************************************************)
(* Properties of the unlock rule of addPoints (SpecLedger)                 *)
(***************************************************************************)
CountOf(list, x) == Cardinality({i \in DOMAIN list : list[i] = x})

HasFirstGame(row) ==
  /\ Includes(row.games_unlocked, "memory_game")
  /\ Includes(row.achievements, "First Game Unlocked!")

\* the unlock and the achievement are in the row once each exactly when its
\* total is 50 or more
FirstGameOnceFrom50 ==
  /\ CountOf(childProgress.games_unlocked, "memory_game")
       = (IF childProgress.total_points >= 50 THEN 1 ELSE 0)
  /\ CountOf(childProgress.achievements, "First Game Unlocked!")
       = (IF childProgress.total_points >= 50 THEN 1 ELSE 0)

\* an update adds the unlock or the achievement to the row only if no
\* earlier update has written them
FirstGameNeverAddedAgain ==
  ( \/ /\ ~Includes(childProgress.games_unlocked, "memory_game")
       /\ Includes(childProgress'.games_unlocked, "memory_game")
    \/ /\ ~Includes(childProgress.achievements, "First Game Unlocked!")
       /\ Includes(childProgress'.achievements, "First Game Unlocked!") )
  => ~\E c \in DOMAIN addCalls :
        addCalls[c].pc = "done" /\ HasFirstGame(AddPointsWritten(addCalls[c]))

\* C11: when the total reaches 50 or more for the first time, exactly one
\* unlock (memory_game) and exactly one achievement (First Game Unlocked!)
\* are added, whatever increments led there, and no later update adds either
\* of them again.
C11_FirstGameUnlockedOnce ==
  [] FirstGameOnceFrom50 /\ [][FirstGameNeverAddedAgain]_vars

(***************************************************************************)
(* Properties of two quizzes answered in a row (SpecScenario)              *)
(***************************************************************************)
\* the games the home view offers: the game button is shown from 50 points
\* (App.tsx line 853)
SessionUnlocks == IF progress.totalPoints >= 50 THEN {"memory_game"} ELSE {}

ExampleOutcomes == <<TRUE, TRUE, FALSE, TRUE, TRUE, TRUE>>

\* C12: the achievement and unlock rules are evaluated after every ledger
\* update made by answering a question: once the outcomes [correct, correct,
\* incorrect, correct, correct, correct] have been applied to a zeroed ledger
\* through the session's answer path, the ledger has 50 points, 5 correct
\* answers, 6 answers, streak 3, unlocks {memory_game} and achievements
\* {First Game Unlocked!}.
C12_ExampleScenario ==
  (applied = ExampleOutcomes /\ CountKind("response") = 0)
    => /\ progress.totalPoints = 50
       /\ progress.correctAnswers = 5
       /\ progress.totalAnswers = 6
       /\ progress.currentStreak = 3
       /\ SessionUnlocks = {"memory_game"}
       /\ Range(progress.achievements) = {"First Game Unlocked!"}

(***************************************************************************)
(* Properties of the session's transitions (Spec)                          *)
(***************************************************************************)
LastQuestion == currentQuestion = Len(currentQuestions) - 1

\* the Analytics Summarizer is called in this step with the given ledger
\* values: its call is pending, or its local report is stored and shown
AnalyticsCalled(seen) ==
  \/ /\ CountKind("analyze")' > CountKind("analyze")
     /\ analytics'.loading
  \/ /\ analytics'.analytics = [source |-> "fallback", seen |-> seen]
     /\ currentView' = "analytics"

\* C13: the return-home transition, from whatever state it is taken, resets
\* the quiz-local state (question set, current index, selected answer,
\* reveal flag) and leaves the progress ledger and the analytics report
\* unchanged.
C13_GoHomeFrame ==
  [][ GoHome => /\ currentQuestions' = <<>>
                /\ currentQuestion' = 0
                /\ selectedAnswer' = NullAnswer
                /\ showAnswer' = FALSE
                /\ UNCHANGED <<progress, analytics>> ]_vars

C13_Witness ==
  /\ currentView = "home"
  /\ currentQuestions = <<>>
  /\ analytics.analytics.source # "null"
  /\ progress.totalAnswers > 0

\* C14: in every reachable state of the session, also while a generation,
\* persistence or analytics call is pending or after it settled late, a
\* return-home transition is available.
C14_HomeAlwaysAvailable ==
  currentView # "home" => HomeButtonShown

\* C15: a persistence write that has not settled blocks no transition: the
\* step that issues the session-creation write enters the quiz, the step
\* that issues the response write reveals the answer and updates the ledger,
\* and the step that issues the totals write starts the analytics.
C15_WritesNeverBlock ==
  [][ /\ StartQuiz => currentView' = "quiz"
      /\ \A answerIndex \in AnswerIndexes :
           (~showAnswer /\ HandleAnswerSelect(answerIndex))
             => (showAnswer' /\ progress'.totalAnswers = progress.totalAnswers + 1)
      /\ (LastQuestion /\ NextQuestion) => AnalyticsCalled(Seen(progress)) ]_vars

C17_FeedbackNeverBlocksNext ==
  (QuizShown /\ showAnswer /\ CountKind("encourage") > 0 /\ PendingCount < budget.pending)
    => ENABLED NextQuestion

C17_Witness ==
  /\ QuizShown
  /\ currentQuestion > 0
  /\ ~showAnswer
  /\ CountKind("encourage") > 0
  /\ encouragement.loading

\* completions (totals or ledger writes) pending for one session record
CompletionsOf(session) ==
  BagCardinality([t \in {u \in BagToSet(tasks) :
                           u.kind \in {"totals", "ledger"} /\ u.session = session}
                    |-> tasks[t]])

\* C20: one quiz is completed once: there is one session-totals write and
\* one Analytics Summarizer call per completed quiz, also when the finish
\* action is triggered again while the first completion is pending.
C20_OneCompletionPerQuiz ==
  /\ \A session \in 1..sessionsCreated : CompletionsOf(session) <= 1
  /\ CountKind("totals") + CountKind("ledger") + CountKind("analyze") <= sessionsCreated


(***************************************************************************)
(* Properties of analyzeLearningProgress (SpecAnalytics)                   *)
(***************************************************************************)
ReportReturned == analysisCall.pc = "returned"

\* C18: every report analyzeLearningProgress returns, from the provider or
\* from the local fallback, with or without answers, has 1..3 strengths,
\* 1..3 areas for improvement, 1..4 recommended topics and 1..4 tips.
C18_ReportLengthsInRange ==
  ReportReturned =>
    LET report == analysisCall.result IN
    /\ report.shape = "object"
    /\ Len(report.strengths) \in 1..3
    /\ Len(report.areasForImprovement) \in 1..3
    /\ Len(report.recommendedNextTopics) \in 1..4
    /\ Len(report.personalizedTips) \in 1..4

\* the arguments are a session ledger: a count for each of the six modules
LedgerShaped(moduleProgress) == DOMAIN moduleProgress = Range(ModuleKeys)

\* display names of the modules with mastery 0
Unattempted(moduleProgress) ==
  {GetModuleDisplayName(k) : k \in {m \in DOMAIN moduleProgress : moduleProgress[m] = 0}}

\* the entries of recommendedNextTopics that are a module's name
NamedTopics(report) ==
  {report.recommendedNextTopics[i].text : i \in DOMAIN report.recommendedNextTopics}

\* C19: a fallback report computed from a session ledger with at least one
\* unattempted module (mastery 0) recommends an unattempted module: some
\* entry of recommendedNextTopics names one.
C19_UnattemptedRecommended ==
  (/\ ReportReturned
   /\ analysisCall.result.source = "fallback"
   /\ LedgerShaped(analysisCall.args.moduleProgress)
   /\ Unattempted(analysisCall.args.moduleProgress) # {})
    => NamedTopics(analysisCall.result)
         \cap Unattempted(analysisCall.args.moduleProgress) # {}

\* C22: the ledger changes only in the step that reveals an answer, and in
\* every state in which a question's answer is revealed the ledger already
\* includes that question's outcome (no outcome is still waiting to be applied).
C22_LedgerUpdatedWithReveal ==
  /\ [] ((QuizShown /\ showAnswer) => CountKind("response") = 0)
  /\ [][ progress' # progress => (~showAnswer /\ showAnswer') ]_vars

\* the ages the count policy is compared over
PolicyAges == 0..12

\* the questions startQuiz chooses from: the generated ones, or the local
\* bank of the module when there are none
AvailableQuestions ==
  IF Len(questions.questions) > 0 THEN questions.questions
  ELSE GetLocalFallbackQuestions(selectedModule)

StartQuizStep == sessionsCreated' = sessionsCreated + 1
EntersQuiz == currentView # "quiz" /\ currentView' = "quiz"

\* C23: starting a quiz selects the first N questions of the available set,
\* N being the count for the child's age, a non-decreasing step function of
\* age from 3 (age 5 or less) to 6 (age 10 or more); the quiz is entered at
\* question index 0 with no answer selected and nothing revealed.
C23_StartSelectsFirstN ==
  [][ /\ StartQuizStep =>
           LET n == GetQuestionCountForAge(currentChild.age) IN
           /\ \A a \in PolicyAges, b \in PolicyAges :
                /\ a <= b => GetQuestionCountForAge(a) <= GetQuestionCountForAge(b)
                /\ GetQuestionCountForAge(a) \in 3..6
                /\ a <= 5 => GetQuestionCountForAge(a) = 3
                /\ a >= 10 => GetQuestionCountForAge(a) = 6
           /\ Len(currentQuestions') = IF Len(AvailableQuestions) < n
                                       THEN Len(AvailableQuestions) ELSE n
           /\ \A i \in DOMAIN currentQuestions' : currentQuestions'[i] = AvailableQuestions[i]
      /\ EntersQuiz =>
           /\ currentQuestion' = 0
           /\ selectedAnswer' = NullAnswer
           /\ ~showAnswer'
    ]_vars

\* a quiz of three questions cut from the five of the local bank is entered
C23_Witness ==
  /\ QuizShown
  /\ currentQuestion = 0 /\ ~showAnswer
  /\ Len(currentQuestions) = 3
  /\ \A i \in 1..3 : currentQuestions[i] = GetLocalFallbackQuestions(selectedModule)[i]

(***************************************************************************)
(* Properties of the topic history (SpecLater)                             *)
(***************************************************************************)
\* the topic of the question whose outcome a step applies to the ledger: the
\* question shown, when the step reveals its answer, and otherwise the
\* question of the response write that settles
AnsweredTopics ==
  IF ~showAnswer /\ showAnswer'
  THEN {Shown.topic}
  ELSE {t.topic : t \in {u \in Pending("response") : CopiesIn(u, tasks') < CopiesIn(u, tasks)}}

\* C25: after every ledger update recentTopics has the answered question's
\* topic at its head, followed by the previous topics in their previous
\* order, and is never longer than 10.
C25_TopicPrependedKeepTen ==
  [][ progress' # progress =>
        LET old == progress.recentTopics
            new == progress'.recentTopics
        IN /\ Len(new) <= 10
           /\ Len(new) = (IF Len(old) < 10 THEN Len(old) + 1 ELSE 10)
           /\ Head(new) \in AnsweredTopics
           /\ \A i \in 2..Len(new) : new[i] = old[i - 1]
    ]_vars

\* an eleventh answer has been applied: its topic leads ten topics
C25_Witness ==
  /\ applied # <<>>
  /\ progress.totalAnswers = 11
  /\ Len(progress.recentTopics) = 10
  /\ Head(progress.recentTopics) \in {"alphabet sequence", "addition"}

(***************************************************************************)
(* Properties of the completion writes (SpecScenario)                      *)
(***************************************************************************)
\* the session totals a step asks the store to write
TotalsRequested == {u \in BagToSet(tasks') : u.kind = "totals"} \ Pending("totals")

\* the outcomes of the quiz that is finishing: every question of the quiz
\* has been answered and its outcome applied, so they are the last
\* Len(currentQuestions) outcomes applied
QuizOutcomes ==
  SubSeq(applied, Len(applied) - Len(currentQuestions) + 1, Len(applied))

\* C27: the session totals written at quiz completion describe that quiz
\* only: the correct count written is at most the number of questions
\* written, and the points written are 10 times the quiz's correct count,
\* also when the ledger held progress before the quiz started.
C27_TotalsOfThisQuiz ==
  [][ \A t \in TotalsRequested :
        /\ t.seen.correctAnswers <= Len(currentQuestions)
        /\ Len(applied) >= Len(currentQuestions)
        /\ t.seen.totalPoints = 10 * CorrectIn(QuizOutcomes)
    ]_vars

(***************************************************************************)
(* Properties of late completions (Spec, SpecScenario)                     *)
(***************************************************************************)
\* the step is a module selection on the home view
ModuleSelected ==
  /\ currentView = "home" /\ currentView' = "module"
  /\ selectedModule' \in LearningModules

\* C28: once home, the session stays home until a module is selected: no
\* late completion of a session-creation, response-write, feedback or
\* analytics call changes the view or the quiz-local state.
C28_HomeUntilModuleSelected ==
  [][ (currentView = "home" /\ ~ModuleSelected) =>
        /\ currentView' = "home"
        /\ UNCHANGED <<selectedModule, quizVars>>
    ]_vars

\* the response and session-totals writes a step asks of the store
WritesRequested ==
  {u \in BagToSet(tasks') : u.kind \in {"response", "totals"}} \ BagToSet(tasks)

\* C29: every question response and session-totals write of a quiz goes to
\* the session record requested when that quiz started (the latest one
\* requested), never to the record of an earlier quiz, also when creating
\* the record for the current quiz failed.
C29_WritesToOwnSession ==
  [][ \A t \in WritesRequested : t.session = sessionsCreated ]_vars

\* the quiz view shows a generated message under the revealed answer (line
\* 1103: the hook's message when there is one, else the explanation)
GeneratedMessageShown ==
  QuizShown /\ showAnswer /\ encouragement.encouragement.source # "null"

\* C26: the feedback shown for a revealed question is the feedback generated
\* for that question's own outcome, or the explanation: a generated message
\* on show was generated for the correctness of the answer on show.
C26_FeedbackOfShownQuestion ==
  GeneratedMessageShown =>
    encouragement.encouragement.isCorrect = (JNum(selectedAnswer) = Shown.correct)

(***************************************************************************)
(* Properties of child selection (SpecChildren)                            *)
(***************************************************************************)
\* C21: the ledger is reloaded whenever the active child changes: once the
\* selection or creation calls have settled, the in-memory ledger is the
\* active child's stored ledger or zeros, never another child's values.
C21_LedgerOfActiveChild ==
  (currentChild # NoChild /\ childTasks = EmptyBag) =>
    progress \in {ConvertRow(StoredRow(currentChild.id)), ZeroProgress}

====
